---------------------------- MODULE Spec2Model ----------------------------
(***************************************************************************)
(* OATdle: the daily question game with its admin editor                   *)
(* (src/src/script.js) and the practice page (src/unnamed/part_000).       *)
(*                                                                         *)
(* Time is counted in whole hours.  An instant t is the number of hours    *)
(* elapsed since local midnight of "January 0" (December 31 of the         *)
(* previous year) of the first modelled year; the wall clock of the        *)
(* player's zone is t plus the daylight-saving shift in force at t.        *)
(***************************************************************************)
EXTENDS Integers, Sequences, FiniteSets, TLC

VARIABLES
    now,             \* the real clock: hours elapsed since Jan 0, 00:00 local
    zone,            \* the player's time zone: "fixed", "north" or "south"
    leap,            \* whether the first modelled year is a leap year
    questions,       \* let questions (the in-memory Question Store)
    currentQuestion, \* let currentQuestion
    questionStem,    \* questionStem.textContent, by kind of text
    gameState,       \* let gameState
    userStats,       \* let userStats
    storage,         \* localStorage: oatdleStats and oatdleGameState
    pc,              \* position of init(): "fetching" (awaiting) or "ready"
    timers,          \* pending feedback timeouts of handleAnswerSubmission
    ev,              \* the event-loop task processed last
    restored,        \* this page load replayed the persisted answer
    shownDay,        \* local calendar day on which currentQuestion was selected
    shownMid,        \* that selection was made from 01:00 up to 22:59 local
    countdown,       \* local day on which the oldest running interval of
                     \* startCountdown was started; NoDay when none runs
    lastCorrectDay,  \* local day of the latest correct answer the player gave
    judged,          \* the question the in-memory (mem) and the persisted (sto)
                     \* lastPlayedAnswer was judged against
    questionList,    \* ids of the delete buttons rendered in #question-list
    \* the practice page (src/unnamed/part_000); it shares questions,
    \* currentQuestion, questionStem, pc and ev with the game's page
    currentQuestionIndex, \* let currentQuestionIndex
    gameFinished,    \* let gameFinished
    feedbackText,    \* feedbackText.textContent
    feedbackFor,     \* id of the question whose answer feedbackText judges
    explanationText, \* explanationText.textContent, by id of its question
    explanationShown, \* explanationContainer.style.display is 'block'
    pending          \* submissions whose reveal/feedback timeouts are pending

gameVars == <<now, zone, leap, questions, currentQuestion, questionStem, gameState,
              userStats, storage, pc, timers, ev, restored, shownDay, shownMid,
              countdown, lastCorrectDay, judged>>

practiceVars == <<currentQuestionIndex, gameFinished, feedbackText, feedbackFor,
                  explanationText, explanationShown, pending>>

vars == <<gameVars, questionList, practiceVars>>

---------------------------------------------------------------------------
(* Bounds of the model *)

MaxGames == 3        \* gamesPlayed is capped here
BankSize == 2        \* questions in the served questions.json of the game
MaxBank == 5         \* largest bank the selector is tried on
GameTicks == 1       \* half-days the game's clock may advance
DaysNextYear == 2    \* days of the following year the selector's clock reaches
StreakDays == 2      \* days the clock may advance while streaks are followed
MaxId == 4           \* the admin adds questions up to this id
PracticeBank == 3    \* questions in the served questions.json of the practice page
MaxPending == 2      \* submissions of the practice page with timeouts pending

---------------------------------------------------------------------------
(* Calendar and clock: what new Date(), getFullYear, toDateString and the  *)
(* subtraction of two Dates compute.                                       *)

oneDay == 24

HalfDay == oneDay \div 2

\* the option keys of a question, and those the player is given to choose
ChoiceLetters == <<"A", "B", "C", "D">>

Letters == {"A", "B"}

Zones == {"fixed", "north", "south"}

YearLen == IF leap THEN 366 ELSE 365

\* Daylight saving, as a shift of the wall clock against the offset in force
\* at Jan 0: a northern zone is one hour ahead from March to November, a
\* southern zone (summer time at Jan 0) one hour behind from April to October.
NorthOn == (68 * oneDay) + 2
NorthOff == (306 * oneDay) + 1
SouthOff == (96 * oneDay) + 2
SouthOn == (278 * oneDay) + 3

Shift(t) ==
    CASE zone = "north" -> IF t >= NorthOn /\ t < NorthOff THEN 1 ELSE 0
      [] zone = "south" -> IF t >= SouthOff /\ t < SouthOn THEN -1 ELSE 0
      [] OTHER -> 0

\* the wall clock at instant t, in hours since Jan 0 00:00 of the first year
LocalTime(t) == t + Shift(t)

\* toDateString(): the local calendar day, counted from Jan 0 of the first year
LocalDay(t) == LocalTime(t) \div oneDay

LocalHour(t) == LocalTime(t) % oneDay

\* getFullYear(): 1 for the first modelled year, 2 for the next
getFullYear(t) == IF LocalDay(t) <= YearLen THEN 1 ELSE 2

\* new Date(year, 0, 0): local midnight of Dec 31 before `year`, as an instant
Jan0(year) == IF year = 1 THEN 0 ELSE YearLen * oneDay

NullTs == -1
EpochDay == -1
NoDay == -2

\* new Date(ts).toDateString(); new Date(null) is the epoch
toDateString(ts) == IF ts = NullTs THEN EpochDay ELSE LocalDay(ts)

Today == LocalDay(now)

\* the local time of day lies from 01:00 up to 22:59
MidDay(t) == LocalHour(t) >= 1 /\ LocalHour(t) < 23

---------------------------------------------------------------------------
(* Questions *)

NoQuestion == [id |-> 0, answer |-> "null"]

Question(i) == [id |-> i, answer |-> ChoiceLetters[((i - 1) % 2) + 1]]

BankOf(n) == [i \in 1..n |-> Question(i)]

\* a JavaScript value that is an array, or undefined
JsArray(items) == [defined |-> TRUE, items |-> items]
Undefined == [defined |-> FALSE, items |-> <<>>]

DayOfYear(t) == (t - Jan0(getFullYear(t))) \div oneDay

getDailyQuestion_offByOne(qs, t) ==
    IF ~qs.defined \/ Len(qs.items) = 0 THEN NoQuestion
    ELSE qs.items[((DayOfYear(t) + 1) % Len(qs.items)) + 1]

getDailyQuestion_halved(qs, t) ==
    IF ~qs.defined \/ Len(qs.items) = 0 THEN NoQuestion
    ELSE qs.items[((DayOfYear(t) \div 2) % Len(qs.items)) + 1]

getDailyQuestion(qs, t) ==
    IF ~qs.defined \/ Len(qs.items) = 0 THEN NoQuestion
    ELSE LET diff == t - Jan0(getFullYear(t))
             dayOfYear == diff \div oneDay
             questionIndex == dayOfYear % Len(qs.items)
         IN  qs.items[questionIndex + 1]

\* displayQuestion: the new [currentQuestion, questionStem, shown]
displayQuestion(question, cq, stem) ==
    IF question = NoQuestion
    THEN [cq |-> cq, stem |-> "No question available for today.", shown |-> FALSE]
    ELSE [cq |-> question, stem |-> "question", shown |-> TRUE]

---------------------------------------------------------------------------
(* Statistics and Session State *)

DefaultStats == [gamesPlayed |-> 0, wins |-> 0, currentStreak |-> 0, maxStreak |-> 0]

DefaultGameState ==
    [gameFinished |-> FALSE, lastPlayedTs |-> NullTs, lastPlayedAnswer |-> "null"]

updateStats_noMaxRaise(us, isCorrect) ==
    [gamesPlayed |-> us.gamesPlayed + 1,
     wins |-> IF isCorrect THEN us.wins + 1 ELSE us.wins,
     currentStreak |-> IF isCorrect THEN us.currentStreak + 1 ELSE 0,
     maxStreak |-> us.maxStreak]

updateStats_noReset(us, isCorrect) ==
    LET cs == IF isCorrect THEN us.currentStreak + 1 ELSE us.currentStreak
    IN  [gamesPlayed |-> us.gamesPlayed + 1,
         wins |-> IF isCorrect THEN us.wins + 1 ELSE us.wins,
         currentStreak |-> cs,
         maxStreak |-> IF cs > us.maxStreak THEN cs ELSE us.maxStreak]

updateStats(us, isCorrect) ==
    LET s1 == [us EXCEPT !.gamesPlayed = @ + 1]
        s2 == IF isCorrect
              THEN [s1 EXCEPT !.wins = @ + 1, !.currentStreak = @ + 1]
              ELSE [s1 EXCEPT !.currentStreak = 0]
    IN  IF s2.currentStreak > s2.maxStreak
        THEN [s2 EXCEPT !.maxStreak = s2.currentStreak]
        ELSE s2

\* JSON.stringify / JSON.parse of the two records; <<>> is an absent key
StringifyStats(us) == <<us.gamesPlayed, us.wins, us.currentStreak, us.maxStreak>>

ParseStats(s) ==
    [gamesPlayed |-> s[1], wins |-> s[2], currentStreak |-> s[3], maxStreak |-> s[4]]

StringifyGameState(gs) == <<gs.gameFinished, gs.lastPlayedTs, gs.lastPlayedAnswer>>

ParseGameState(s) ==
    [gameFinished |-> s[1], lastPlayedTs |-> s[2], lastPlayedAnswer |-> s[3]]

EmptyStorage == [oatdleStats |-> <<>>, oatdleGameState |-> <<>>]

loadStats(st, us) == IF st.oatdleStats # <<>> THEN ParseStats(st.oatdleStats) ELSE us

loadGameState_noDateCheck(st, gs, t) ==
    IF st.oatdleGameState # <<>> THEN ParseGameState(st.oatdleGameState) ELSE gs

loadGameState(st, gs, t) ==
    IF st.oatdleGameState # <<>>
    THEN LET savedState == ParseGameState(st.oatdleGameState)
         IN  IF toDateString(savedState.lastPlayedTs) = toDateString(t)
             THEN savedState
             ELSE gs
    ELSE gs

\* handleAnswerSubmission: the new [gs, us, tm] and whether it threw at
\* currentQuestion.answer (no question displayed)
handleAnswerSubmission(gs, us, tm, cq, selectedAnswer, t) ==
    IF gs.gameFinished
    THEN [gs |-> gs, us |-> us, tm |-> tm, threw |-> FALSE, acted |-> FALSE]
    ELSE LET gs1 == [gameFinished |-> TRUE, lastPlayedTs |-> t,
                     lastPlayedAnswer |-> selectedAnswer]
         IN  IF cq = NoQuestion
             THEN [gs |-> gs1, us |-> us, tm |-> tm, threw |-> TRUE, acted |-> TRUE]
             ELSE [gs |-> gs1, us |-> updateStats(us, selectedAnswer = cq.answer),
                   tm |-> tm + 1, threw |-> FALSE, acted |-> TRUE]

\* restoreGameState
restoreGameState(gs, us, tm, cq, t) ==
    IF gs.gameFinished
    THEN handleAnswerSubmission([gs EXCEPT !.gameFinished = FALSE], us, tm, cq,
                                gs.lastPlayedAnswer, t)
    ELSE [gs |-> gs, us |-> us, tm |-> tm, threw |-> FALSE, acted |-> FALSE]

\* event.key.toUpperCase() on the keys the player is given
Keys == {"a", "B", "x"}

toUpperCase(k) ==
    CASE k = "a" -> "A" [] k = "b" -> "B" [] k = "c" -> "C" [] k = "d" -> "D"
      [] k = "x" -> "X" [] OTHER -> k

---------------------------------------------------------------------------
(* The game: page loads, answers, the admin preview, timers, the clock *)

\* no countdown runs and no answer has been given or judged
GhostsIdle ==
    /\ countdown = NoDay
    /\ lastCorrectDay = NoDay
    /\ judged = [mem |-> NoQuestion, sto |-> NoQuestion]

\* the practice page as its script leaves it before init() resumes
PracticeIdle ==
    /\ currentQuestionIndex = 0
    /\ gameFinished = FALSE
    /\ feedbackText = ""
    /\ feedbackFor = 0
    /\ explanationText = 0
    /\ explanationShown = FALSE
    /\ pending = <<>>

GameStart == ((180 * oneDay) - 1) + HalfDay

GameEnd == GameStart + (GameTicks * HalfDay)

\* A first visit, in a zone with daylight saving, at local noon of a
\* summer day: storage is empty and init() awaits the fetch.
Init ==
    /\ now = GameStart
    /\ zone = "north"
    /\ leap = FALSE
    /\ questions = JsArray(<<>>)
    /\ currentQuestion = NoQuestion
    /\ questionStem = ""
    /\ gameState = DefaultGameState
    /\ userStats = DefaultStats
    /\ storage = EmptyStorage
    /\ pc = "fetching"
    /\ timers = 0
    /\ ev = "load"
    /\ restored = FALSE
    /\ shownDay = NoDay
    /\ shownMid = FALSE
    /\ GhostsIdle
    /\ questionList = <<>>
    /\ PracticeIdle

\* A navigation to the page: the module state is fresh, init() runs loadStats
\* and loadGameState and suspends at the fetch of the bank.
Reload ==
    /\ questions' = JsArray(<<>>)
    /\ currentQuestion' = NoQuestion
    /\ questionStem' = ""
    /\ userStats' = loadStats(storage, DefaultStats)
    /\ gameState' = loadGameState(storage, DefaultGameState, now)
    /\ pc' = "fetching"
    /\ timers' = 0
    /\ ev' = "load"
    /\ restored' = FALSE
    /\ shownDay' = NoDay
    /\ shownMid' = FALSE
    /\ countdown' = NoDay
    /\ judged' = [judged EXCEPT !.mem = IF gameState' = DefaultGameState
                                        THEN NoQuestion ELSE judged.sto]
    /\ questionList' = <<>>
    /\ UNCHANGED <<now, zone, leap, storage, lastCorrectDay, practiceVars>>

\* The fetch settles and init() runs to its end.
FetchDone(outcome) ==
    /\ pc = "fetching"
    /\ LET loadedQuestions ==
               CASE outcome = "ok" -> JsArray(BankOf(BankSize))
                 [] outcome = "nolist" -> Undefined
                 [] OTHER -> JsArray(<<>>)
           stem1 == IF outcome = "error" THEN "Failed to load questions." ELSE questionStem
           d == displayQuestion(getDailyQuestion(loadedQuestions, now),
                                currentQuestion, stem1)
           r == restoreGameState(gameState, userStats, timers, d.cq, now)
       IN  /\ r.us.gamesPlayed <= MaxGames
           /\ questions' = IF outcome = "error" THEN questions ELSE loadedQuestions
           /\ currentQuestion' = d.cq
           /\ questionStem' = d.stem
           /\ shownDay' = IF d.shown THEN Today ELSE shownDay
           /\ shownMid' = IF d.shown THEN MidDay(now) ELSE shownMid
           /\ gameState' = r.gs
           /\ userStats' = r.us
           /\ timers' = r.tm
           /\ restored' = (/\ r.acted
                           /\ storage.oatdleGameState # <<>>
                           /\ gameState = ParseGameState(storage.oatdleGameState))
           /\ ev' = IF r.threw THEN "replayThrow" ELSE IF r.acted THEN "replay" ELSE "start"
           /\ judged' = IF r.acted THEN [judged EXCEPT !.mem = d.cq] ELSE judged
    /\ pc' = "ready"
    /\ UNCHANGED <<now, zone, leap, storage, countdown, lastCorrectDay, questionList,
                   practiceVars>>

\* A click on a rendered option.
Click(letter) ==
    /\ currentQuestion # NoQuestion
    /\ LET r == IF ~gameState.gameFinished
                THEN handleAnswerSubmission(gameState, userStats, timers,
                                            currentQuestion, letter, now)
                ELSE [gs |-> gameState, us |-> userStats, tm |-> timers,
                      threw |-> FALSE, acted |-> FALSE]
       IN  /\ r.us.gamesPlayed <= MaxGames
           /\ gameState' = r.gs
           /\ userStats' = r.us
           /\ timers' = r.tm
           /\ ev' = IF r.acted THEN "submit" ELSE "ignored"
           /\ judged' = IF r.acted THEN [judged EXCEPT !.mem = currentQuestion]
                         ELSE judged
           /\ lastCorrectDay' = IF r.acted /\ letter = currentQuestion.answer
                                 THEN Today ELSE lastCorrectDay
    /\ UNCHANGED <<now, zone, leap, questions, currentQuestion, questionStem,
                   storage, pc, restored, shownDay, shownMid, countdown,
                   questionList, practiceVars>>

\* A key press anywhere in the document.
KeyDown(k) ==
    /\ LET key == toUpperCase(k)
           r == IF ~gameState.gameFinished /\ key \in {"A", "B", "C", "D"}
                THEN handleAnswerSubmission(gameState, userStats, timers,
                                            currentQuestion, key, now)
                ELSE [gs |-> gameState, us |-> userStats, tm |-> timers,
                      threw |-> FALSE, acted |-> FALSE]
       IN  /\ r.us.gamesPlayed <= MaxGames
           /\ gameState' = r.gs
           /\ userStats' = r.us
           /\ timers' = r.tm
           /\ ev' = IF key \notin {"A", "B", "C", "D"} THEN "otherKey"
                    ELSE IF r.threw THEN "throw"
                    ELSE IF r.acted THEN "submit" ELSE "ignored"
           /\ judged' = IF r.acted THEN [judged EXCEPT !.mem = currentQuestion]
                         ELSE judged
           /\ lastCorrectDay' = IF r.acted /\ ~r.threw /\ key = currentQuestion.answer
                                 THEN Today ELSE lastCorrectDay
    /\ UNCHANGED <<now, zone, leap, questions, currentQuestion, questionStem,
                   storage, pc, restored, shownDay, shownMid, countdown,
                   questionList, practiceVars>>

\* The admin's "set daily question" button with the id typed in the field.
SetDailyQuestion(questionId) ==
    /\ LET found == IF questions.defined
                    THEN {i \in 1..Len(questions.items) :
                              questions.items[i].id = questionId}
                    ELSE {}
       IN  IF found # {}
           THEN LET question == questions.items[CHOOSE i \in found :
                                                    \A j \in found : i <= j]
                    d == displayQuestion(question, currentQuestion, questionStem)
                IN  /\ currentQuestion' = d.cq
                    /\ questionStem' = d.stem
                    /\ shownDay' = Today
                    /\ shownMid' = MidDay(now)
                    /\ gameState' = [gameState EXCEPT !.gameFinished = FALSE]
                    /\ ev' = "preview"
           ELSE \* alert('Question not found.'); questions.find throws when
                \* questions is undefined
                /\ UNCHANGED <<currentQuestion, questionStem, shownDay, shownMid,
                               gameState>>
                /\ ev' = IF questions.defined THEN "previewMiss" ELSE "previewThrow"
    /\ UNCHANGED <<now, zone, leap, questions, userStats, storage, pc, timers,
                   restored, countdown, lastCorrectDay, judged, questionList,
                   practiceVars>>

\* The feedback timeout of a submission fires: saveStats, saveGameState,
\* startCountdown.
FeedbackTimeout ==
    /\ timers > 0
    /\ timers' = timers - 1
    /\ storage' = [oatdleStats |-> StringifyStats(userStats),
                   oatdleGameState |-> StringifyGameState(gameState)]
    /\ countdown' = IF countdown = NoDay THEN Today ELSE countdown
    /\ judged' = [judged EXCEPT !.sto = judged.mem]
    /\ ev' = "timeout"
    /\ UNCHANGED <<now, zone, leap, questions, currentQuestion, questionStem,
                   gameState, userStats, pc, restored, shownDay, shownMid,
                   lastCorrectDay, questionList, practiceVars>>

\* Half a day goes by.
TimePasses ==
    /\ now + HalfDay <= GameEnd
    /\ now' = now + HalfDay
    /\ ev' = "time"
    /\ UNCHANGED <<zone, leap, questions, currentQuestion, questionStem, gameState,
                   userStats, storage, pc, timers, restored, shownDay, shownMid,
                   countdown, lastCorrectDay, judged, questionList, practiceVars>>

\* new Date(year, month, date + 1) taken at instant t: the instant of the
\* next local midnight
tomorrow(t) ==
    LET midnight == (LocalDay(t) + 1) * oneDay
    IN  CHOOSE u \in (midnight - 1)..(midnight + 1) :
            /\ LocalTime(u) = midnight
            /\ \A v \in (midnight - 1)..(midnight + 1) : LocalTime(v) = midnight => u <= v

\* A callback of an interval of startCountdown runs; the intervals started
\* by several feedback timeouts run the same callback.
CountdownTick ==
    /\ countdown # NoDay
    /\ LET diff == tomorrow(now) - now
       IN  IF diff <= 0
           THEN Reload
           ELSE /\ ev' = "countdown"
                /\ UNCHANGED <<now, zone, leap, questions, currentQuestion,
                               questionStem, gameState, userStats, storage, pc,
                               timers, restored, shownDay, shownMid, countdown,
                               lastCorrectDay, judged, questionList, practiceVars>>

Next ==
    \/ Reload
    \/ \E outcome \in {"ok", "error", "nolist"} : FetchDone(outcome)
    \/ \E letter \in Letters : Click(letter)
    \/ \E k \in Keys : KeyDown(k)
    \/ \E questionId \in 1..(BankSize + 1) : SetDailyQuestion(questionId)
    \/ FeedbackTimeout
    \/ CountdownTick
    \/ TimePasses

Spec == Init /\ [][Next]_vars

---------------------------------------------------------------------------
(* The game played by a visitor over several days: one page load after     *)
(* another, clicks on the options, no admin.                               *)

StreakEnd == GameStart + (StreakDays * oneDay)

\* A day goes by.
DayPasses ==
    /\ now + oneDay <= StreakEnd
    /\ now' = now + oneDay
    /\ ev' = "time"
    /\ UNCHANGED <<zone, leap, questions, currentQuestion, questionStem, gameState,
                   userStats, storage, pc, timers, restored, shownDay, shownMid,
                   countdown, lastCorrectDay, judged, questionList, practiceVars>>

StreakNext ==
    \/ Reload
    \/ \E outcome \in {"ok", "error"} : FetchDone(outcome)
    \/ \E letter \in Letters : Click(letter)
    \/ FeedbackTimeout
    \/ CountdownTick
    \/ DayPasses

StreakSpec == Init /\ [][StreakNext]_vars

---------------------------------------------------------------------------
(* The Admin Editor: the dashboard, the add-question form and the delete   *)
(* buttons, over a store that the page loads fill.                         *)

\* what the admin leaves in a text field, and in the answer field
Texts == {"", "text"}

AnswerFields == {"", "a", "B", "x"}

Forms == [stem : Texts, A : Texts, B : Texts, C : Texts, D : Texts,
          answer : AnswerFields]

\* Math.max(...questions.map(q => q.id))
MathMax(items) ==
    CHOOSE m \in {items[i].id : i \in 1..Len(items)} :
        \A i \in 1..Len(items) : items[i].id <= m

nextId_byLength(items) == Len(items) + 1

\* the id given to newQuestion
nextId(items) == IF Len(items) > 0 THEN MathMax(items) + 1 ELSE 1

\* the new question of the form; its texts are kept by their truthiness only
newQuestion(items, form) ==
    [id |-> nextId(items), answer |-> toUpperCase(form.answer)]

\* the truthiness test of the add handler
Filled(form) ==
    /\ form.stem # ""
    /\ form.answer # ""
    /\ form.A # "" /\ form.B # "" /\ form.C # "" /\ form.D # ""

\* renderQuestionList: the data-id of the delete buttons; questions.forEach
\* throws on an undefined store, after the list has been emptied
renderQuestionList(qs) ==
    IF qs.defined THEN [i \in 1..Len(qs.items) |-> qs.items[i].id] ELSE <<>>

\* questions.filter(q => q.id !== questionId)
filter(items, questionId) ==
    SelectSeq(items, LAMBDA q : q.id # questionId)

\* The admin logs in: showAdminDashboard.
showAdminDashboard ==
    /\ questionList' = renderQuestionList(questions)
    /\ ev' = IF questions.defined THEN "dashboard" ELSE "dashboardThrow"
    /\ UNCHANGED <<now, zone, leap, questions, currentQuestion, questionStem,
                   gameState, userStats, storage, pc, timers, restored, shownDay,
                   shownMid, countdown, lastCorrectDay, judged, practiceVars>>

\* The "add question" button with the form as filled in.
AddQuestion(form) ==
    /\ IF ~questions.defined
       THEN \* questions.length throws
            /\ ev' = "addThrow"
            /\ UNCHANGED <<questions, questionList>>
       ELSE IF Filled(form)
       THEN /\ nextId(questions.items) <= MaxId
            /\ questions' = JsArray(Append(questions.items,
                                           newQuestion(questions.items, form)))
            /\ questionList' = renderQuestionList(questions')
            /\ ev' = "added"
       ELSE \* alert('Please fill out all fields for the new question.')
            /\ ev' = "addRejected"
            /\ UNCHANGED <<questions, questionList>>
    /\ UNCHANGED <<now, zone, leap, currentQuestion, questionStem, gameState,
                   userStats, storage, pc, timers, restored, shownDay, shownMid,
                   countdown, lastCorrectDay, judged, practiceVars>>

\* A click on the rendered delete button of questionId.
DeleteQuestion(questionId) ==
    /\ \E i \in 1..Len(questionList) : questionList[i] = questionId
    /\ IF questions.defined
       THEN /\ questions' = JsArray(filter(questions.items, questionId))
            /\ questionList' = renderQuestionList(questions')
            /\ ev' = "deleted"
       ELSE \* questions.filter throws
            /\ ev' = "deleteThrow"
            /\ UNCHANGED <<questions, questionList>>
    /\ UNCHANGED <<now, zone, leap, currentQuestion, questionStem, gameState,
                   userStats, storage, pc, timers, restored, shownDay, shownMid,
                   countdown, lastCorrectDay, judged, practiceVars>>

AdminNext ==
    \/ Reload
    \/ \E outcome \in {"ok", "error", "nolist"} : FetchDone(outcome)
    \/ showAdminDashboard
    \/ \E form \in Forms : AddQuestion(form)
    \/ \E questionId \in 1..MaxId : DeleteQuestion(questionId)

AdminSpec == Init /\ [][AdminNext]_vars

---------------------------------------------------------------------------
(* The practice page (src/unnamed/part_000): every question of the bank,   *)
(* with prev/next navigation; nothing is persisted.                        *)

\* the variables of the game's page that the practice script does not have
gameOnlyVars == <<now, zone, leap, gameState, userStats, storage, timers, restored,
                  shownDay, shownMid, countdown, lastCorrectDay, judged,
                  questionList>>

\* questions[index]: undefined beyond the end of the array
itemAt(qs, index) ==
    IF qs.defined /\ index >= 0 /\ index < Len(qs.items)
    THEN qs.items[index + 1] ELSE NoQuestion

\* displayQuestion of the practice script: the new [currentQuestion,
\* gameFinished, feedbackText, feedbackFor, explanationShown, questionStem]
practiceDisplayQuestion(question) ==
    IF question = NoQuestion
    THEN [cq |-> currentQuestion, fin |-> gameFinished, text |-> feedbackText,
          for |-> feedbackFor, shown |-> explanationShown,
          stem |-> "No questions available."]
    ELSE [cq |-> question, fin |-> FALSE, text |-> "", for |-> 0, shown |-> FALSE,
          stem |-> "question"]

\* the timeouts one submission schedules: one reveal per option, one feedback
Timeouts == Len(ChoiceLetters) + 1

PracticeInit ==
    /\ now = GameStart
    /\ zone = "north"
    /\ leap = FALSE
    /\ questions = JsArray(<<>>)
    /\ currentQuestion = NoQuestion
    /\ questionStem = ""
    /\ gameState = DefaultGameState
    /\ userStats = DefaultStats
    /\ storage = EmptyStorage
    /\ pc = "fetching"
    /\ timers = 0
    /\ ev = "load"
    /\ restored = FALSE
    /\ shownDay = NoDay
    /\ shownMid = FALSE
    /\ GhostsIdle
    /\ questionList = <<>>
    /\ PracticeIdle

\* A navigation to the practice page: fresh module state, fresh document.
PracticeLoad ==
    /\ questions' = JsArray(<<>>)
    /\ currentQuestion' = NoQuestion
    /\ questionStem' = ""
    /\ pc' = "fetching"
    /\ ev' = "load"
    /\ currentQuestionIndex' = 0
    /\ gameFinished' = FALSE
    /\ feedbackText' = ""
    /\ feedbackFor' = 0
    /\ explanationText' = 0
    /\ explanationShown' = FALSE
    /\ pending' = <<>>
    /\ UNCHANGED gameOnlyVars

\* The fetch settles and init() of the practice script runs to its end.
PracticeFetchDone(outcome) ==
    /\ pc = "fetching"
    /\ LET loadedQuestions ==
               CASE outcome = "ok" -> JsArray(BankOf(PracticeBank))
                 [] outcome = "nolist" -> Undefined
                 [] OTHER -> JsArray(<<>>)
           stem1 == IF outcome = "error" THEN "Failed to load questions."
                    ELSE questionStem
           d == practiceDisplayQuestion(itemAt(loadedQuestions, currentQuestionIndex))
       IN  /\ questions' = loadedQuestions
           /\ IF loadedQuestions.defined /\ Len(loadedQuestions.items) > 0
              THEN /\ currentQuestion' = d.cq
                   /\ gameFinished' = d.fin
                   /\ feedbackText' = d.text
                   /\ feedbackFor' = d.for
                   /\ explanationShown' = d.shown
                   /\ questionStem' = d.stem
                   /\ ev' = "start"
              ELSE \* questions.length throws on undefined
                   /\ questionStem' = stem1
                   /\ ev' = IF loadedQuestions.defined THEN "start" ELSE "startThrow"
                   /\ UNCHANGED <<currentQuestion, gameFinished, feedbackText,
                                  feedbackFor, explanationShown>>
    /\ pc' = "ready"
    /\ UNCHANGED <<currentQuestionIndex, explanationText, pending, gameOnlyVars>>

\* handleAnswerSubmission of the practice script, called by a listener that
\* found gameFinished false
PracticeSubmit(selectedAnswer) ==
    /\ gameFinished' = TRUE
    /\ IF currentQuestion = NoQuestion
       THEN \* currentQuestion.answer throws
            /\ ev' = "throw"
            /\ UNCHANGED pending
       ELSE /\ Len(pending) < MaxPending
            /\ pending' = Append(pending,
                                 [left |-> Timeouts,
                                  isCorrect |-> (selectedAnswer = currentQuestion.answer),
                                  for |-> currentQuestion.id])
            /\ ev' = "submit"

\* A click on a rendered option of the practice page.
PracticeClick(letter) ==
    /\ currentQuestion # NoQuestion
    /\ IF ~gameFinished
       THEN PracticeSubmit(letter)
       ELSE ev' = "ignored" /\ UNCHANGED <<gameFinished, pending>>
    /\ UNCHANGED <<questions, currentQuestion, questionStem, pc,
                   currentQuestionIndex, feedbackText, feedbackFor, explanationText,
                   explanationShown, gameOnlyVars>>

\* A key press on the practice page.
PracticeKeyDown(k) ==
    /\ LET key == toUpperCase(k)
       IN  IF ~gameFinished /\ key \in {"A", "B", "C", "D"}
           THEN PracticeSubmit(key)
           ELSE /\ ev' = IF gameFinished THEN "ignored" ELSE "otherKey"
                /\ UNCHANGED <<gameFinished, pending>>
    /\ UNCHANGED <<questions, currentQuestion, questionStem, pc,
                   currentQuestionIndex, feedbackText, feedbackFor, explanationText,
                   explanationShown, gameOnlyVars>>

\* The next timeout of the i-th pending submission fires.  The timeouts of a
\* submission fire in order, and the k-th timeout of a later submission fires
\* after the k-th of every earlier one.  A reveal only styles the option
\* elements it captured; the feedback writes the verdict of its submission
\* and the explanation of the question displayed when it fires.
PracticeTimeout(i) ==
    /\ i \in 1..Len(pending)
    /\ \A j \in 1..(i - 1) : pending[j].left < pending[i].left
    /\ IF pending[i].left > 1
       THEN /\ pending' = [pending EXCEPT ![i].left = @ - 1]
            /\ ev' = "reveal"
            /\ UNCHANGED <<feedbackText, feedbackFor, explanationText,
                           explanationShown>>
       ELSE /\ pending' = [j \in 1..(Len(pending) - 1) |->
                               IF j < i THEN pending[j] ELSE pending[j + 1]]
            /\ feedbackText' = IF pending[i].isCorrect THEN "Correct!" ELSE "Incorrect!"
            /\ feedbackFor' = pending[i].for
            /\ explanationText' = currentQuestion.id
            /\ explanationShown' = TRUE
            /\ ev' = "feedback"
    /\ UNCHANGED <<questions, currentQuestion, questionStem, pc,
                   currentQuestionIndex, gameFinished, gameOnlyVars>>

canPrev(index) == index > 0

canNext_offByOne(index, qs) == index < Len(qs.items)

canNext(index, qs) == index < Len(qs.items) - 1

\* the effect of a navigation that moves to index
Navigate(index) ==
    LET d == practiceDisplayQuestion(itemAt(questions, index))
    IN  /\ currentQuestionIndex' = index
        /\ currentQuestion' = d.cq
        /\ gameFinished' = d.fin
        /\ feedbackText' = d.text
        /\ feedbackFor' = d.for
        /\ explanationShown' = d.shown
        /\ questionStem' = d.stem

\* A click on the "previous" button.
PrevQuestion ==
    /\ IF canPrev(currentQuestionIndex)
       THEN Navigate(currentQuestionIndex - 1)
       ELSE UNCHANGED <<currentQuestionIndex, currentQuestion, gameFinished,
                        feedbackText, feedbackFor, explanationShown, questionStem>>
    /\ ev' = "prev"
    /\ UNCHANGED <<questions, pc, explanationText, pending, gameOnlyVars>>

\* A click on the "next" button; questions.length throws on undefined.
NextQuestion ==
    /\ IF questions.defined /\ canNext(currentQuestionIndex, questions)
       THEN Navigate(currentQuestionIndex + 1)
       ELSE UNCHANGED <<currentQuestionIndex, currentQuestion, gameFinished,
                        feedbackText, feedbackFor, explanationShown, questionStem>>
    /\ ev' = IF questions.defined THEN "next" ELSE "nextThrow"
    /\ UNCHANGED <<questions, pc, explanationText, pending, gameOnlyVars>>

PracticeNext ==
    \/ PracticeLoad
    \/ \E outcome \in {"ok", "error", "nolist"} : PracticeFetchDone(outcome)
    \/ \E letter \in Letters : PracticeClick(letter)
    \/ \E k \in Keys : PracticeKeyDown(k)
    \/ \E i \in 1..MaxPending : PracticeTimeout(i)
    \/ PrevQuestion
    \/ NextQuestion

PracticeSpec == PracticeInit /\ [][PracticeNext]_vars

---------------------------------------------------------------------------
(* The Daily Selector on its own: getDailyQuestion and displayQuestion     *)
(* applied at any instant of the year, in any zone, to any bank.           *)

SelEnd == ((YearLen + DaysNextYear + 1) * oneDay) - 1

Banks == {Undefined} \cup {JsArray(BankOf(n)) : n \in 0..MaxBank}

SelInit ==
    /\ zone \in Zones
    /\ leap \in BOOLEAN
    /\ now \in oneDay..SelEnd
    /\ questions \in Banks
    /\ currentQuestion = NoQuestion
    /\ questionStem = ""
    /\ gameState = DefaultGameState
    /\ userStats = DefaultStats
    /\ storage = EmptyStorage
    /\ pc = "fetching"
    /\ timers = 0
    /\ ev = "load"
    /\ restored = FALSE
    /\ shownDay = NoDay
    /\ shownMid = FALSE
    /\ GhostsIdle
    /\ questionList = <<>>
    /\ PracticeIdle

\* init() selects and displays the daily question from the loaded bank.
SelectDaily ==
    /\ LET d == displayQuestion(getDailyQuestion(questions, now),
                                currentQuestion, questionStem)
       IN  /\ currentQuestion' = d.cq
           /\ questionStem' = d.stem
           /\ shownDay' = IF d.shown THEN Today ELSE shownDay
           /\ shownMid' = IF d.shown THEN MidDay(now) ELSE shownMid
    /\ ev' = "select"
    /\ UNCHANGED <<now, zone, leap, questions, gameState, userStats, storage, pc,
                   timers, restored, countdown, lastCorrectDay, judged,
                   questionList, practiceVars>>

\* An hour goes by; the clock is followed to the end of the day after the
\* last selection.
Tick ==
    /\ shownDay # NoDay
    /\ now + 1 <= SelEnd
    /\ LocalDay(now + 1) <= shownDay + 1
    /\ now' = now + 1
    /\ ev' = "tick"
    /\ UNCHANGED <<zone, leap, questions, currentQuestion, questionStem, gameState,
                   userStats, storage, pc, timers, restored, shownDay, shownMid,
                   countdown, lastCorrectDay, judged, questionList, practiceVars>>

SelNext == SelectDaily \/ Tick

SelSpec == SelInit /\ [][SelNext]_vars

---------------------------------------------------------------------------
(* Properties of the Daily Selector (checked under SelSpec) *)

BankLen == IF questions.defined THEN Len(questions.items) ELSE 0

\* C8: for a bank of N > 0 questions, getDailyQuestion called at any two
\* instants of one local calendar day, in any zone, returns the same question:
\* the question it would return now is the one it returned earlier today.
C8_SameDaySameQuestion ==
    (shownDay = Today /\ BankLen > 0)
        => getDailyQuestion(questions, now) = currentQuestion

\* C9: right after the selection, for a bank of N > 0 the displayed question
\* is the element at an index in [0, N) congruent to dayOfYear modulo N; for an
\* empty or missing bank nothing is displayed: currentQuestion stays unset and
\* the fallback message is shown.
C9_SelectorResult ==
    ev = "select" =>
        IF BankLen > 0
        THEN /\ DayOfYear(now) >= 0
             /\ \E idx \in 0..(BankLen - 1) :
                    /\ currentQuestion = questions.items[idx + 1]
                    /\ (DayOfYear(now) - idx) % BankLen = 0
             /\ questionStem = "question"
        ELSE /\ currentQuestion = NoQuestion
             /\ questionStem = "No question available for today."

\* a selection that wrapped around a bank of three, late in the year
C9_Witness ==
    /\ ev = "select"
    /\ BankLen = 3
    /\ DayOfYear(now) > 300
    /\ currentQuestion = questions.items[3]

---------------------------------------------------------------------------
(* Properties of the game (checked under Spec) *)

StoredState == ParseGameState(storage.oatdleGameState)

\* the persisted Session State is a completed game of today
StoredCompletedToday ==
    /\ storage.oatdleGameState # <<>>
    /\ StoredState.gameFinished
    /\ toDateString(StoredState.lastPlayedTs) = Today

\* the persisted Session State is of another calendar day
StoredStale ==
    /\ storage.oatdleGameState # <<>>
    /\ toDateString(StoredState.lastPlayedTs) # Today

\* init() resumes after the fetch and runs to its end
StartupCompletes == pc = "fetching" /\ pc' = "ready"

\* C1: a reload on the day of a persisted completed answer leaves the
\* in-memory Statistics as loaded, and the timeout of the replay leaves the
\* persisted Statistics as they were.
C1_ReloadIdempotent ==
    [][ /\ (StartupCompletes /\ StoredCompletedToday /\ gameState = StoredState)
            => userStats' = userStats
        /\ (restored /\ ev = "replay" /\ ev' = "timeout")
            => storage'.oatdleStats = storage.oatdleStats ]_vars

\* C2: in one page session on one calendar day, the first submission raises
\* gamesPlayed by one, and once the session has taken a submission today no
\* later event of that session on that day changes gamesPlayed.
C2_OncePerSession ==
    [][ /\ (ev' = "submit" /\ gameState.lastPlayedTs = NullTs)
            => userStats'.gamesPlayed = userStats.gamesPlayed + 1
        /\ (/\ pc = "ready" /\ pc' = "ready"
            /\ ~restored
            /\ gameState.lastPlayedTs # NullTs
            /\ toDateString(gameState.lastPlayedTs) = Today
            /\ LocalDay(now') = Today)
            => userStats'.gamesPlayed = userStats.gamesPlayed ]_vars

\* C3: when a submission has been processed, both persisted records already
\* hold the mutated Statistics and Session State.
C3_PersistedImmediately ==
    ev = "submit" =>
        /\ storage.oatdleStats = StringifyStats(userStats)
        /\ storage.oatdleGameState = StringifyGameState(gameState)

StatsInvariant(us) ==
    /\ us.gamesPlayed >= 0 /\ us.wins >= 0 /\ us.currentStreak >= 0 /\ us.maxStreak >= 0
    /\ us.wins <= us.gamesPlayed
    /\ us.maxStreak >= us.currentStreak

\* C4: in every reachable state the in-memory Statistics, and the persisted
\* Statistics when there are any, have wins <= gamesPlayed,
\* maxStreak >= currentStreak and no negative counter.
C4_StatsInvariant ==
    /\ StatsInvariant(userStats)
    /\ storage.oatdleStats # <<>> => StatsInvariant(ParseStats(storage.oatdleStats))

\* a win followed by a miss, persisted
C4_Witness ==
    /\ userStats = [gamesPlayed |-> 2, wins |-> 1, currentStreak |-> 0, maxStreak |-> 1]
    /\ storage.oatdleStats = StringifyStats(userStats)

\* C5: a submission of answer a on question q maps Statistics (g, w, c, m) to
\* (g+1, w+1, c+1, max(m, c+1)) when a is q's answer and to (g+1, w, 0, m)
\* otherwise.
C5_UpdateRule ==
    [][ ev' = "submit" =>
          LET a == gameState'.lastPlayedAnswer
              g == userStats.gamesPlayed
              w == userStats.wins
              c == userStats.currentStreak
              m == userStats.maxStreak
          IN  /\ currentQuestion' = currentQuestion
              /\ userStats' =
                    IF a = currentQuestion.answer
                    THEN [gamesPlayed |-> g + 1, wins |-> w + 1, currentStreak |-> c + 1,
                          maxStreak |-> IF m > c + 1 THEN m ELSE c + 1]
                    ELSE [gamesPlayed |-> g + 1, wins |-> w, currentStreak |-> 0,
                          maxStreak |-> m] ]_vars

\* an incorrect answer has just ended a streak
C5_Witness ==
    /\ ev = "submit"
    /\ gameState.lastPlayedAnswer # currentQuestion.answer
    /\ userStats.currentStreak = 0
    /\ userStats.maxStreak >= 1
    /\ userStats.wins >= 1

\* C6: a page load that finds a persisted Session State of another calendar
\* day starts with the default Session State and the persisted Statistics;
\* when init() then completes it replays nothing and leaves Statistics and
\* Session State as they are; and a click on an option is then taken as the
\* day's submission.
C6_StaleNotHonored ==
    [][ /\ (ev' = "load" /\ StoredStale)
            => /\ gameState' = DefaultGameState
               /\ userStats' = loadStats(storage, DefaultStats)
        /\ (StartupCompletes /\ StoredStale /\ gameState = DefaultGameState)
            => /\ gameState' = DefaultGameState
               /\ userStats' = userStats
               /\ timers' = 0
               /\ ~restored'
        /\ (/\ ev = "start" /\ StoredStale /\ currentQuestion # NoQuestion
            /\ ev' \in {"submit", "ignored"}
            /\ userStats.gamesPlayed < MaxGames)
            => /\ ev' = "submit"
               /\ userStats'.gamesPlayed = userStats.gamesPlayed + 1 ]_vars

\* startup has completed over a stale persisted Session State
C6_Witness ==
    /\ ev = "start"
    /\ pc = "ready"
    /\ StoredStale
    /\ StoredState.gameFinished
    /\ currentQuestion # NoQuestion
    /\ gameState = DefaultGameState
    /\ userStats.gamesPlayed = 1

\* C7: a reload on the day of a persisted completed answer ends with the
\* Session State completed with the persisted answer, and from then on no
\* click or key press of that session changes Session State or Statistics.
C7_RestoredStaysClosed ==
    [][ /\ (StartupCompletes /\ StoredCompletedToday /\ gameState = StoredState)
            => /\ gameState'.gameFinished
               /\ gameState'.lastPlayedAnswer = StoredState.lastPlayedAnswer
        /\ (restored /\ ev' \in {"submit", "ignored", "throw"})
            => /\ gameState' = gameState
               /\ userStats' = userStats ]_vars

---------------------------------------------------------------------------
(* The countdown (checked under Spec) *)

\* C11: once a countdown runs and the page stays open, a callback of its
\* interval run when the next calendar day has begun cancels it and reloads
\* the page: no callback that returned without reloading ran on a later day
\* than the one on which the countdown was started.
C11_CountdownReloads ==
    ev = "countdown" => countdown = Today

---------------------------------------------------------------------------
(* The streak over several days (checked under StreakSpec) *)

\* C12: currentStreak counts the consecutive days answered correctly up to
\* the latest played day, so a day without a correct answer between two
\* correctly answered days ends the streak: a correct answer given when the
\* latest correct answer dates from before yesterday leaves a streak of one.
C12_GapEndsStreak ==
    [][ (/\ ev' = "submit"
         /\ gameState'.lastPlayedAnswer = currentQuestion.answer
         /\ lastCorrectDay # NoDay
         /\ lastCorrectDay < Today - 1)
            => userStats'.currentStreak = 1 ]_vars

---------------------------------------------------------------------------
(* Properties of the Admin Editor (checked under AdminSpec) *)

\* C13: an add request whose stem, answer or one of whose four option texts
\* is blank is rejected with the validation message and leaves the Question
\* Store as it is; an accepted request appends exactly one question and
\* changes no question that was there.
C13_AddValidation ==
    [][ /\ \A form \in Forms :
              (AddQuestion(form) /\ ~Filled(form))
                  => (ev' = "addRejected" /\ questions' = questions)
        /\ ev' = "added"
              => /\ Len(questions'.items) = Len(questions.items) + 1
                 /\ \A i \in 1..Len(questions.items) :
                        questions'.items[i] = questions.items[i] ]_vars

\* C14: every question of the Question Store has an answer among the choice
\* letters A to D, whatever the admin has added and deleted.
C14_ValidAnswerLetter ==
    \A i \in 1..BankLen : questions.items[i].answer \in {"A", "B", "C", "D"}

IdsDistinct(items) ==
    \A i, j \in 1..Len(items) : items[i].id = items[j].id => i = j

\* C15: an accepted add gives the new question the largest id of the store
\* plus one, or 1 when the store is empty; a click on a delete button removes
\* the question of that id and leaves the others in place and in order; and
\* the ids of the store stay pairwise distinct.
C15_IdAssignment ==
    [][ /\ ev' = "added"
              => LET id == questions'.items[Len(questions'.items)].id
                 IN  IF questions.items = <<>> THEN id = 1
                     ELSE /\ \A i \in 1..Len(questions.items) :
                                questions.items[i].id < id
                          /\ \E i \in 1..Len(questions.items) :
                                questions.items[i].id = id - 1
        /\ \A questionId \in 1..MaxId :
              (DeleteQuestion(questionId) /\ ev' = "deleted")
                  => LET gone == {i \in 1..Len(questions.items) :
                                      questions.items[i].id = questionId}
                     IN  /\ Cardinality(gone) <= 1
                         /\ Len(questions'.items) =
                                Len(questions.items) - Cardinality(gone)
                         /\ \A i \in 1..Len(questions'.items) :
                                questions'.items[i] =
                                    questions.items[IF \E g \in gone : g <= i
                                                    THEN i + 1 ELSE i]
        /\ IdsDistinct(questions'.items) ]_vars

\* a question added after the deletion of a question that was not the last
C15_Witness ==
    /\ ev = "added"
    /\ questionList = <<1, 3, 4>>
    /\ questions.defined
    /\ renderQuestionList(questions) = questionList

---------------------------------------------------------------------------
(* Load failures, early key presses and the replay (checked under Spec) *)

\* C16: when init() completes after a fetch that failed or a document without
\* the questions list, no exception escapes, the Question Store is the empty
\* list, a message stands in place of the question, and Session State and
\* Statistics are as they were loaded.
C16_LoadFailure ==
    [][ (StartupCompletes /\ (~questions'.defined \/ questions'.items = <<>>))
            => /\ ev' # "replayThrow"
               /\ questions' = JsArray(<<>>)
               /\ questionStem' \in {"Failed to load questions.",
                                      "No question available for today."}
               /\ gameState' = gameState
               /\ userStats' = userStats ]_vars

\* C17: an answer key pressed or an option clicked while no question is
\* displayed changes neither Session State nor Statistics, and neither does
\* the completion of init() that follows such a key press.
C17_NoAnswerWithoutQuestion ==
    [][ /\ (currentQuestion = NoQuestion /\ ev' \in {"submit", "throw", "ignored"})
            => (gameState' = gameState /\ userStats' = userStats)
        /\ (StartupCompletes /\ ev = "throw")
            => userStats' = userStats ]_vars

\* C18: when init() replays the persisted answer, its verdict is the verdict
\* of the submission that was persisted: the answer is correct for the
\* question now displayed exactly if it was for the question it was given to.
C18_ReplayAgrees ==
    [][ (ev' = "replay" /\ restored' /\ judged.mem # NoQuestion)
            => ((gameState.lastPlayedAnswer = currentQuestion'.answer)
                    = (gameState.lastPlayedAnswer = judged.mem.answer)) ]_vars

---------------------------------------------------------------------------
(* Properties of the practice page (checked under PracticeSpec) *)

\* C19: feedback text or the explanation is visible only when an answer to
\* the displayed question has been submitted, the feedback is the verdict on
\* that question and the explanation is that question's.
C19_FeedbackBelongs ==
    (feedbackText # "" \/ explanationShown)
        => /\ gameFinished
           /\ currentQuestion # NoQuestion
           /\ feedbackFor = currentQuestion.id
           /\ explanationText = currentQuestion.id

\* the document, the script's state and its pending timeouts
practiceState == <<questions, currentQuestion, questionStem, practiceVars>>

\* C20: once a non-empty bank is loaded, currentQuestionIndex lies in
\* [0, questions.length - 1] and the displayed question is
\* questions[currentQuestionIndex]; a click on prev at index 0 or on next at
\* the last index changes nothing; and a navigation that moves goes one
\* question back or forth and leaves gameFinished false.
C20_NavigationBounds ==
    [][ /\ BankLen' > 0
            => /\ currentQuestionIndex' \in 0..(BankLen' - 1)
               /\ currentQuestion' = questions'.items[currentQuestionIndex' + 1]
        /\ (BankLen > 0 /\ ev' = "prev")
            => IF currentQuestionIndex = 0
               THEN practiceState' = practiceState
               ELSE /\ currentQuestionIndex' = currentQuestionIndex - 1
                    /\ ~gameFinished'
        /\ (BankLen > 0 /\ ev' = "next")
            => IF currentQuestionIndex = BankLen - 1
               THEN practiceState' = practiceState
               ELSE /\ currentQuestionIndex' = currentQuestionIndex + 1
                    /\ ~gameFinished' ]_vars

\* a click on next at the last question, answered, has changed nothing
C20_Witness ==
    /\ ev = "next"
    /\ BankLen = PracticeBank
    /\ currentQuestionIndex = BankLen - 1
    /\ gameFinished
    /\ pending # <<>>

=============================================================================
